---------------------------- MODULE Spec2Model ----------------------------
(***************************************************************************)
(* Full Planes (src/app.py): the quota ledger, the token cache and the     *)
(* parallel per-day flight search of the Flask handler `search`.           *)
(*                                                                         *)
(* Request threads (Flask serves each request on its own thread) are the   *)
(* processes.  The quota file, the quota lock and the token cache are      *)
(* shared by all of them.                                                  *)
(*                                                                         *)
(*   SpecQuota  threads call check_and_consume_quota / get_remaining_quota *)
(*              concurrently while the calendar day may change and the     *)
(*              write of the quota file may fail;                          *)
(*   SpecToken  threads call get_amadeus_token concurrently while time     *)
(*              passes and the authorization endpoint answers or fails;    *)
(*   Spec       one request thread runs the handler `search` from the form *)
(*              to the rendered page, the worker pool of its per-day       *)
(*              queries included.                                          *)
(***************************************************************************)
EXTENDS Integers, Sequences, FiniteSets, TLC

(***************************************************************************)
(* Program constants.                                                      *)
(***************************************************************************)
DAILY_API_CALL_LIMIT == 1000
MAX_DELTA_DAYS == 6
MAX_WORKERS == 5
RETRY_ATTEMPTS == 3

(***************************************************************************)
(* Bounds of the model.                                                    *)
(***************************************************************************)
NumThreads == 2      \* request threads
MaxDay == 2          \* calendar days 1..MaxDay
MaxCalls == 2        \* quota-function calls in one behaviour of SpecQuota

Threads == 1..NumThreads
Days == 1..MaxDay
NoThread == 0

VARIABLES
    today,          \* date.today(), a day number
    quota_file,     \* content of QUOTA_FILE
    quota_lock,     \* the thread inside `with quota_lock:`, or NoThread
    pc,             \* per thread: where it stands
    frame,          \* per thread: the locals of the quota function it runs
    granted,        \* history: per day, the sum of the reservations granted
    calls,          \* history: quota-function calls started so far
    now,                  \* time.time(), seconds
    credentials,          \* API_KEY and API_SECRET are both set
    amadeus_token_cache,  \* the module-level cache {token, expires_at}
    issued,               \* tokens the authorization endpoint has issued
    valid_until,          \* history: per token issued, the time it expires
    tframe,               \* per thread: its call of get_amadeus_token
    form,                 \* request.form of the search request
    search,               \* locals of the handler `search`
    tasks,                \* the futures of the executor, in submission order
    all_found_flights,    \* the handler's result list
    session,              \* session['search_results']
    response,             \* what the handler returned
    net,                  \* history: calls made by the search so far
    queries,              \* history: the find_flights calls started, in order
    faults                \* history: queries that met a response other than 200 and 400

qvars == <<today, quota_file, quota_lock, pc, frame, granted, calls>>
svars == <<now, credentials, amadeus_token_cache, issued, valid_until, tframe,
           form, search, tasks,
           all_found_flights, session, response, net, queries, faults>>
vars == <<today, quota_file, quota_lock, pc, frame, granted, calls,
          now, credentials, amadeus_token_cache, issued, valid_until, tframe,
          form, search, tasks,
          all_found_flights, session, response, net, queries, faults>>

(***************************************************************************)
(* The quota file.  json.load gives an object {date, count}, an object     *)
(* without the key count, some other JSON value ([] or null), or fails     *)
(* (JSONDecodeError); open fails when the file is absent.  Date 0 stands   *)
(* for a stored date before day 1 or for a missing key date: both compare  *)
(* unequal to every today_str.                                             *)
(***************************************************************************)

Absent == [kind |-> "absent", date |-> 0, count |-> 0]
Unparsable == [kind |-> "unparsable", date |-> 0, count |-> 0]
NonObject == [kind |-> "nonobject", date |-> 0, count |-> 0]
QuotaRecord(d, c) == [kind |-> "object", date |-> d, count |-> c]
RecordWithoutCount(d) == [kind |-> "object_nocount", date |-> d, count |-> 0]
NotLoaded == [kind |-> "none", date |-> 0, count |-> 0]

Max(a, b) == IF a >= b THEN a ELSE b

(***************************************************************************)
(* check_and_consume_quota, lines 142-155: the usage the call works with.  *)
(* status "raise": usage.get on a non-object (AttributeError), not caught. *)
(* has_count FALSE: usage['count'] at line 157 raises KeyError.            *)
(***************************************************************************)
LoadUsage_never_reset(file, today_str) ==
    CASE file.kind \in {"absent", "unparsable"} ->
            [status |-> "ok", date |-> today_str, count |-> 0, has_count |-> TRUE]
      [] file.kind = "nonobject" ->
            [status |-> "raise", date |-> today_str, count |-> 0, has_count |-> TRUE]
      [] OTHER ->
            [status |-> "ok", date |-> file.date, count |-> file.count,
             has_count |-> file.kind = "object"]

LoadUsage(file, today_str) ==
    CASE file.kind \in {"absent", "unparsable"} ->
            [status |-> "ok", date |-> today_str, count |-> 0, has_count |-> TRUE]
      [] file.kind = "nonobject" ->
            [status |-> "raise", date |-> today_str, count |-> 0, has_count |-> TRUE]
      [] OTHER ->
            IF file.date # today_str
            THEN [status |-> "ok", date |-> today_str, count |-> 0, has_count |-> TRUE]
            ELSE [status |-> "ok", date |-> file.date, count |-> file.count,
                  has_count |-> file.kind = "object"]

(* line 157 *)
OverLimit_ignoring_request(count, calls_to_make) == count > DAILY_API_CALL_LIMIT
OverLimit_at_limit(count, calls_to_make) == count + calls_to_make >= DAILY_API_CALL_LIMIT

OverLimit(count, calls_to_make) == count + calls_to_make > DAILY_API_CALL_LIMIT

(***************************************************************************)
(* get_remaining_quota, lines 180-192.  "raise" as above; a missing count  *)
(* reads as 0 (usage.get('count', 0)).                                     *)
(***************************************************************************)

Remaining(file, today_str) ==
    CASE file.kind \in {"absent", "unparsable"} ->
            [status |-> "ok", value |-> DAILY_API_CALL_LIMIT]
      [] file.kind = "nonobject" -> [status |-> "raise", value |-> 0]
      [] OTHER ->
            IF file.date # today_str
            THEN [status |-> "ok", value |-> DAILY_API_CALL_LIMIT]
            ELSE [status |-> "ok",
                  value |-> Max(0, DAILY_API_CALL_LIMIT - file.count)]

(***************************************************************************)
(* Lines 164-172.  open(QUOTA_FILE, 'w') truncates the file before         *)
(* json.dump writes: when open itself fails the file is as it was, when    *)
(* the write fails after open (disk full, I/O error) the file is left      *)
(* empty or cut short, which json.load rejects.  Both raise IOError.       *)
(***************************************************************************)
WriteOutcomes == {"written", "open_failed", "write_failed"}

FileAfterWrite(file, usage_date, usage_count, outcome) ==
    CASE outcome = "written" -> QuotaRecord(usage_date, usage_count)
      [] outcome = "open_failed" -> file
      [] OTHER -> Unparsable

(***************************************************************************)
(* Frames.                                                                 *)
(***************************************************************************)
NoFrame ==
    [fn |-> "none", caller |-> "none", n |-> 0, today_str |-> 0, date |-> 0,
     count |-> 0, loaded |-> NotLoaded, ok |-> FALSE, remaining |-> 0,
     wrote |-> "none"]

(* `with quota_lock:`, lines 141 and 179 *)

LockFree == quota_lock = NoThread

(* where the quota function returns to *)
ReturnPc(caller) == IF caller = "search" THEN "after_quota" ELSE "ret"
RaisePc(caller) == IF caller = "search" THEN "unhandled" ELSE "raised"

(***************************************************************************)
(* check_and_consume_quota(n), lines 141-159: take the lock, read the day, *)
(* load the file, compare with the limit.  Over the limit the call returns *)
(* False at once; else it goes on to write, the lock held.                 *)
(***************************************************************************)
ConsumeEnter(t) ==
    /\ pc[t] = "ccq"
    /\ LockFree
    /\ LET u == LoadUsage(quota_file, today)
           f == [frame[t] EXCEPT !.today_str = today, !.date = u.date,
                                 !.loaded = quota_file]
       IN  IF u.status = "raise" \/ ~u.has_count
           THEN /\ pc' = [pc EXCEPT ![t] = RaisePc(frame[t].caller)]
                /\ frame' = [frame EXCEPT ![t] = f]
                /\ UNCHANGED quota_lock
           ELSE IF OverLimit(u.count, frame[t].n)
           THEN /\ pc' = [pc EXCEPT ![t] = ReturnPc(frame[t].caller)]
                /\ frame' = [frame EXCEPT ![t] = [f EXCEPT !.count = u.count,
                                                          !.ok = FALSE]]
                /\ UNCHANGED quota_lock
           ELSE /\ pc' = [pc EXCEPT ![t] = "ccq_write"]
                /\ frame' = [frame EXCEPT ![t] =
                                [f EXCEPT !.count = u.count + frame[t].n]]
                /\ quota_lock' = t
    /\ UNCHANGED <<today, quota_file, granted, calls>>
    /\ UNCHANGED svars

(***************************************************************************)
(* Lines 161-172: write the record, return True, or False when the write   *)
(* raised IOError; the lock is released on the way out.                    *)
(***************************************************************************)
ConsumeWrite_keeping_lock(t) ==
    /\ pc[t] = "ccq_write"
    /\ \E outcome \in WriteOutcomes :
        /\ quota_file' = FileAfterWrite(quota_file, frame[t].date,
                                        frame[t].count, outcome)
        /\ frame' = [frame EXCEPT ![t].ok = (outcome = "written"),
                                  ![t].wrote = outcome]
        /\ granted' = IF outcome = "written"
                      THEN [granted EXCEPT ![frame[t].today_str] = @ + frame[t].n]
                      ELSE granted
    /\ quota_lock' = t
    /\ pc' = [pc EXCEPT ![t] = ReturnPc(frame[t].caller)]
    /\ UNCHANGED <<today, calls>>
    /\ UNCHANGED svars

ConsumeWrite(t) ==
    /\ pc[t] = "ccq_write"
    /\ \E outcome \in WriteOutcomes :
        /\ quota_file' = FileAfterWrite(quota_file, frame[t].date,
                                        frame[t].count, outcome)
        /\ frame' = [frame EXCEPT ![t].ok = (outcome = "written"),
                                  ![t].wrote = outcome]
        /\ granted' = IF outcome = "written"
                      THEN [granted EXCEPT ![frame[t].today_str] = @ + frame[t].n]
                      ELSE granted
    /\ quota_lock' = NoThread
    /\ pc' = [pc EXCEPT ![t] = ReturnPc(frame[t].caller)]
    /\ UNCHANGED <<today, calls>>
    /\ UNCHANGED svars

(***************************************************************************)
(* get_remaining_quota(), lines 179-192, in one step under the lock.       *)
(***************************************************************************)
RemainingCall_persisting_reset(t) ==
    /\ pc[t] = "grq"
    /\ LockFree
    /\ LET r == Remaining(quota_file, today)
       IN  /\ pc' = [pc EXCEPT ![t] = IF r.status = "raise"
                                      THEN RaisePc(frame[t].caller)
                                      ELSE "ret"]
           /\ frame' = [frame EXCEPT ![t].today_str = today,
                                     ![t].loaded = quota_file,
                                     ![t].remaining = r.value]
           /\ quota_file' = IF quota_file.kind \in {"object", "object_nocount"}
                               /\ quota_file.date # today
                            THEN QuotaRecord(today, 0)
                            ELSE quota_file
    /\ UNCHANGED <<today, quota_lock, granted, calls>>
    /\ UNCHANGED svars

RemainingCall(t) ==
    /\ pc[t] = "grq"
    /\ LockFree
    /\ LET r == Remaining(quota_file, today)
       IN  /\ pc' = [pc EXCEPT ![t] = IF r.status = "raise"
                                      THEN RaisePc(frame[t].caller)
                                      ELSE "ret"]
           /\ frame' = [frame EXCEPT ![t].today_str = today,
                                     ![t].loaded = quota_file,
                                     ![t].remaining = r.value]
    /\ UNCHANGED <<today, quota_file, quota_lock, granted, calls>>
    /\ UNCHANGED svars

(***************************************************************************)
(* Callers of SpecQuota: a thread that is not inside a call starts one.    *)
(***************************************************************************)
CallSizes == {1, 2, 7, DAILY_API_CALL_LIMIT + 1}

CallConsume(t) ==
    /\ pc[t] \in {"idle", "ret", "raised"}
    /\ calls < MaxCalls
    /\ \E n \in CallSizes :
        frame' = [frame EXCEPT ![t] = [NoFrame EXCEPT !.fn = "consume",
                                                      !.caller = "direct", !.n = n]]
    /\ pc' = [pc EXCEPT ![t] = "ccq"]
    /\ calls' = calls + 1
    /\ UNCHANGED <<today, quota_file, quota_lock, granted>>
    /\ UNCHANGED svars

CallRemaining(t) ==
    /\ pc[t] \in {"idle", "ret", "raised"}
    /\ calls < MaxCalls
    /\ frame' = [frame EXCEPT ![t] = [NoFrame EXCEPT !.fn = "remaining",
                                                     !.caller = "direct"]]
    /\ pc' = [pc EXCEPT ![t] = "grq"]
    /\ calls' = calls + 1
    /\ UNCHANGED <<today, quota_file, quota_lock, granted>>
    /\ UNCHANGED svars

(* midnight *)
NextDay ==
    /\ today < MaxDay
    /\ today' = today + 1
    /\ UNCHANGED <<quota_file, quota_lock, pc, frame, granted, calls>>
    /\ UNCHANGED svars

(***************************************************************************)
(* The search request.  A form field is a day number (a well-formed        *)
(* YYYY-MM-DD string), EmptyField (the field is missing or empty) or       *)
(* NotADate (text that strptime rejects); origin and destination are text. *)
(***************************************************************************)
MaxFaultyQueries == 1   \* queries of one search that meet a faulty upstream response

EmptyField == -2
NotADate == -1

Form(o, d, s, e) == [origin |-> o, destination |-> d, start_date |-> s, end_date |-> e]

Forms ==
    {Form("fra ", "jfk", 1, 1 + d) : d \in -1..(MAX_DELTA_DAYS + 2)}
        \cup {Form("", "jfk", 1, 1), Form("fra ", "jfk", EmptyField, 1),
              Form("fra ", "jfk", 1, NotADate)}

NoForm == Form("", "", EmptyField, EmptyField)

(* origin_val.upper().strip(), lines 340-341 *)
UpperStrip(text) ==
    CASE text = "fra " -> "FRA"
      [] text = "jfk" -> "JFK"
      [] OTHER -> text

(***************************************************************************)
(* Lines 336-354: the error the form is redirected with, or "none".        *)
(***************************************************************************)
ValidationError_eight_days(f) ==
    IF f.origin = "" \/ f.destination = "" \/ f.start_date = EmptyField
       \/ f.end_date = EmptyField
    THEN "fill_all_fields"
    ELSE IF f.start_date = NotADate \/ f.end_date = NotADate THEN "invalid_date"
    ELSE IF f.end_date < f.start_date THEN "end_before_start"
    ELSE IF f.end_date - f.start_date > MAX_DELTA_DAYS + 1 THEN "range_exceeds_7_days"
    ELSE "none"

ValidationError(f) ==
    IF f.origin = "" \/ f.destination = "" \/ f.start_date = EmptyField
       \/ f.end_date = EmptyField
    THEN "fill_all_fields"
    ELSE IF f.start_date = NotADate \/ f.end_date = NotADate THEN "invalid_date"
    ELSE IF f.end_date < f.start_date THEN "end_before_start"
    ELSE IF f.end_date - f.start_date > MAX_DELTA_DAYS THEN "range_exceeds_7_days"
    ELSE "none"

NoSearch == [origin |-> "", destination |-> "", start_date |-> 0, delta_days |-> 0,
             token |-> 0, error |-> "none", max_seats |-> "", collected |-> <<>>]
NoResponse == [kind |-> "none", error |-> "none", flights |-> <<>>]
NoNet == [token_calls |-> 0, auth_requests |-> 0, search_requests |-> 0]

Redirect(error) == [kind |-> "redirect", error |-> error, flights |-> <<>>]
ErrorPage(error) == [kind |-> "error_page", error |-> error, flights |-> <<>>]
ResultsPage(flights) == [kind |-> "results", error |-> "none", flights |-> flights]

(* a request arrives: POST /search *)
Request(t) ==
    /\ pc[t] = "idle"
    /\ \E f \in Forms : form' = f
    /\ pc' = [pc EXCEPT ![t] = "search"]
    /\ UNCHANGED <<today, quota_file, quota_lock, frame, granted, calls>>
    /\ UNCHANGED <<now, credentials, amadeus_token_cache, issued, valid_until, tframe,
                   search, tasks,
                   all_found_flights, session, response, net, queries, faults>>

(***************************************************************************)
(* Lines 330-359: validate the form; a valid one goes on to reserve        *)
(* num_searches = delta.days + 1 calls.                                    *)
(***************************************************************************)
Validate(t) ==
    /\ pc[t] = "search"
    /\ LET error == ValidationError(form)
       IN  IF error # "none"
           THEN /\ response' = Redirect(error)
                /\ pc' = [pc EXCEPT ![t] = "done"]
                /\ UNCHANGED <<frame, search>>
           ELSE /\ search' = [NoSearch EXCEPT
                                 !.origin = UpperStrip(form.origin),
                                 !.destination = UpperStrip(form.destination),
                                 !.start_date = form.start_date,
                                 !.delta_days = form.end_date - form.start_date]
                /\ frame' = [frame EXCEPT ![t] =
                                [NoFrame EXCEPT !.fn = "consume", !.caller = "search",
                                                !.n = form.end_date - form.start_date + 1]]
                /\ pc' = [pc EXCEPT ![t] = "ccq"]
                /\ UNCHANGED response
    /\ UNCHANGED <<today, quota_file, quota_lock, granted, calls>>
    /\ UNCHANGED <<now, credentials, amadeus_token_cache, issued, valid_until, tframe,
                   form, tasks,
                   all_found_flights, session, net, queries, faults>>

(***************************************************************************)
(* Lines 359-360: a refused reservation ends the request.                  *)
(***************************************************************************)
AfterQuota_ignoring_result(t) ==
    /\ pc[t] = "after_quota"
    /\ pc' = [pc EXCEPT ![t] = "token"]
    /\ UNCHANGED response
    /\ UNCHANGED <<today, quota_file, quota_lock, frame, granted, calls>>
    /\ UNCHANGED <<now, credentials, amadeus_token_cache, issued, valid_until, tframe,
                   form, search, tasks,
                   all_found_flights, session, net, queries, faults>>

AfterQuota(t) ==
    /\ pc[t] = "after_quota"
    /\ IF frame[t].ok
       THEN /\ pc' = [pc EXCEPT ![t] = "token"]
            /\ UNCHANGED response
       ELSE /\ pc' = [pc EXCEPT ![t] = "done"]
            /\ response' = Redirect("daily_limit_reached")
    /\ UNCHANGED <<today, quota_file, quota_lock, frame, granted, calls>>
    /\ UNCHANGED <<now, credentials, amadeus_token_cache, issued, valid_until, tframe,
                   form, search, tasks,
                   all_found_flights, session, net, queries, faults>>

(***************************************************************************)
(* get_amadeus_token.  tframe[t] holds what the call of thread t has done: *)
(* whether the cache answered, the exchanges it sent, the lifetime the     *)
(* endpoint declared, what it returned and at what time.                   *)
(***************************************************************************)
TOKEN_BUFFER_SECONDS == 60
DEFAULT_EXPIRES_IN == 1799

NoTokenFrame ==
    [caller |-> "none", outcome |-> "none", token |-> 0, hit |-> FALSE,
     exchanges |-> 0, expires_in |-> 0, at |-> 0, previous |-> 0,
     previous_hit |-> FALSE, previous_exchanges |-> 0]

(* line 202 *)
CacheHit_never(cache, time) == FALSE

CacheHit(cache, time) ==
    cache.token # 0 /\ time < cache.expires_at - TOKEN_BUFFER_SECONDS

(* where get_amadeus_token returns to, and where its AmadeusApiError goes *)
TokenReturnPc(caller) == IF caller = "search" THEN "submit" ELSE "ret"
TokenRaisePc_carrying_on(caller) == IF caller = "search" THEN "submit" ELSE "raised"

TokenRaisePc(caller) == IF caller = "search" THEN "done" ELSE "raised"

(***************************************************************************)
(* Lines 201-216: a cached token with more than 60 seconds left is         *)
(* returned; without credentials the function returns None, which the      *)
(* handler turns into AmadeusApiError (lines 365-367); else the exchange   *)
(* is sent.                                                                *)
(***************************************************************************)
TokenEnter(t) ==
    /\ pc[t] = "token"
    /\ LET caller == IF tframe[t].caller = "direct" THEN "direct" ELSE "search"
           hit == CacheHit(amadeus_token_cache, now)
           f == [tframe[t] EXCEPT !.caller = caller, !.hit = hit, !.at = now]
       IN  /\ net' = [net EXCEPT !.token_calls = @ + 1,
                                 !.auth_requests =
                                     IF ~hit /\ credentials THEN @ + 1 ELSE @]
           /\ IF hit
              THEN /\ tframe' = [tframe EXCEPT ![t] =
                                    [f EXCEPT !.outcome = "token",
                                              !.token = amadeus_token_cache.token]]
                   /\ search' = IF caller = "search"
                                THEN [search EXCEPT !.token = amadeus_token_cache.token]
                                ELSE search
                   /\ pc' = [pc EXCEPT ![t] = TokenReturnPc(caller)]
                   /\ UNCHANGED response
              ELSE IF ~credentials
              THEN /\ tframe' = [tframe EXCEPT ![t] = [f EXCEPT !.outcome = "None"]]
                   /\ response' = IF caller = "search"
                                  THEN ErrorPage("no_token") ELSE response
                   /\ pc' = [pc EXCEPT ![t] = IF caller = "search" THEN "done" ELSE "ret"]
                   /\ UNCHANGED search
              ELSE /\ tframe' = [tframe EXCEPT ![t] = [f EXCEPT !.exchanges = @ + 1]]
                   /\ pc' = [pc EXCEPT ![t] = "token_wait"]
                   /\ UNCHANGED <<search, response>>
    /\ UNCHANGED <<today, quota_file, quota_lock, frame, granted, calls>>
    /\ UNCHANGED <<now, credentials, amadeus_token_cache, issued, valid_until, form,
                   tasks, all_found_flights, session, queries, faults>>

(***************************************************************************)
(* Lines 216-224: the answer of the authorization endpoint.  A transport   *)
(* failure or an error status raises AmadeusApiError.  A good answer       *)
(* carries a token and may declare its lifetime (expires_in, 1799 when the *)
(* key is missing); the token is stored first (line 224).  requests.post   *)
(* has no timeout: without an answer the call blocks.                      *)
(***************************************************************************)
AuthResponses == {"ok", "http_error", "transport_error", "no_answer"}

NoExpiresIn == -1
DeclaredLifetimes == {NoExpiresIn, 30, DEFAULT_EXPIRES_IN}

ExpiresIn(declared) == IF declared = NoExpiresIn THEN DEFAULT_EXPIRES_IN ELSE declared

TokenResponse(t) ==
    /\ pc[t] = "token_wait"
    /\ \E r \in AuthResponses :
        CASE r = "ok" ->
               \E declared \in DeclaredLifetimes :
                  /\ issued' = issued + 1
                  /\ valid_until' = Append(valid_until, now + ExpiresIn(declared))
                  /\ amadeus_token_cache' =
                         [amadeus_token_cache EXCEPT !.token = issued + 1]
                  /\ tframe' = [tframe EXCEPT ![t].token = issued + 1,
                                              ![t].expires_in = ExpiresIn(declared)]
                  /\ pc' = [pc EXCEPT ![t] = "token_store"]
                  /\ UNCHANGED response
          [] r = "no_answer" ->
               /\ pc' = [pc EXCEPT ![t] = "token_blocked"]
               /\ UNCHANGED <<issued, valid_until, amadeus_token_cache, tframe, response>>
          [] OTHER ->
               /\ tframe' = [tframe EXCEPT ![t].outcome = "raised"]
               /\ response' = IF tframe[t].caller = "search"
                              THEN ErrorPage("authentication_failed") ELSE response
               /\ pc' = [pc EXCEPT ![t] = TokenRaisePc(tframe[t].caller)]
               /\ UNCHANGED <<issued, valid_until, amadeus_token_cache>>
    /\ UNCHANGED <<today, quota_file, quota_lock, frame, granted, calls>>
    /\ UNCHANGED <<now, credentials, form, search, tasks, all_found_flights, session,
                   net, queries, faults>>

(* lines 225-228: the expiry is stored and the new token returned *)
TokenStore(t) ==
    /\ pc[t] = "token_store"
    /\ amadeus_token_cache' =
           [amadeus_token_cache EXCEPT !.expires_at = now + tframe[t].expires_in]
    /\ tframe' = [tframe EXCEPT ![t].outcome = "token", ![t].at = now]
    /\ search' = IF tframe[t].caller = "search"
                 THEN [search EXCEPT !.token = tframe[t].token] ELSE search
    /\ pc' = [pc EXCEPT ![t] = TokenReturnPc(tframe[t].caller)]
    /\ UNCHANGED <<today, quota_file, quota_lock, frame, granted, calls>>
    /\ UNCHANGED <<now, credentials, issued, valid_until, form, tasks,
                   all_found_flights, session, response, net, queries, faults>>

(***************************************************************************)
(* Callers of SpecToken: a thread that is not inside a call calls          *)
(* get_amadeus_token; it remembers what its last call returned and the     *)
(* exchanges that call sent.  Time passes between the steps, but not       *)
(* between lines 218 and 225, which run at once.                           *)
(***************************************************************************)
CallToken(t) ==
    /\ pc[t] \in {"idle", "ret", "raised"}
    /\ calls < MaxCalls
    /\ tframe' = [tframe EXCEPT ![t] =
                     [NoTokenFrame EXCEPT !.caller = "direct",
                                          !.previous = tframe[t].token,
                                          !.previous_hit = tframe[t].hit,
                                          !.previous_exchanges = tframe[t].exchanges]]
    /\ pc' = [pc EXCEPT ![t] = "token"]
    /\ calls' = calls + 1
    /\ UNCHANGED <<today, quota_file, quota_lock, frame, granted>>
    /\ UNCHANGED <<now, credentials, amadeus_token_cache, issued, valid_until, form,
                   search, tasks, all_found_flights, session, response, net, queries,
                   faults>>

Times == {0, 1738, 1739, 1800, 3600}

Tick ==
    /\ \A t \in Threads : pc[t] # "token_store"
    /\ \E later \in Times : later > now /\ now' = later
    /\ UNCHANGED qvars
    /\ UNCHANGED <<credentials, amadeus_token_cache, issued, valid_until, tframe, form,
                   search, tasks, all_found_flights, session, response, net, queries,
                   faults>>

(***************************************************************************)
(* The executor, lines 373-377: one future per day of the range, each with *)
(* the arguments find_flights is called with.                              *)
(***************************************************************************)
Task(s, i) ==
    [origin |-> s.origin, destination |-> s.destination,
     departure_date |-> s.start_date + i - 1, token |-> s.token,
     st |-> "pending", attempt |-> 0, waits |-> <<>>, error |-> "none",
     requests |-> 0, responses |-> <<>>, result |-> <<>>,
     after_failure |-> FALSE]

Submit_one_day_short(t) ==
    /\ pc[t] = "submit"
    /\ tasks' = [i \in 1..search.delta_days |-> Task(search, i)]
    /\ pc' = [pc EXCEPT ![t] = "collect"]
    /\ UNCHANGED <<today, quota_file, quota_lock, frame, granted, calls>>
    /\ UNCHANGED <<now, credentials, amadeus_token_cache, issued, valid_until, tframe,
                   form, search,
                   all_found_flights, session, response, net, queries, faults>>

Submit(t) ==
    /\ pc[t] = "submit"
    /\ tasks' = [i \in 1..(search.delta_days + 1) |-> Task(search, i)]
    /\ pc' = [pc EXCEPT ![t] = "collect"]
    /\ UNCHANGED <<today, quota_file, quota_lock, frame, granted, calls>>
    /\ UNCHANGED <<now, credentials, amadeus_token_cache, issued, valid_until, tframe,
                   form, search,
                   all_found_flights, session, response, net, queries, faults>>

TaskIds == DOMAIN tasks
Executing == {i \in TaskIds : tasks[i].st \in {"running", "sleeping", "blocked"}}

(***************************************************************************)
(* A worker takes the next work item of the queue: items leave the queue   *)
(* in submission order, and at most max_workers threads exist; a worker    *)
(* whose query is over, failed or not, is free for the next item.  The     *)
(* item remembers whether a query of the search had failed by then.        *)
(***************************************************************************)
SomeFailed == \E j \in TaskIds : tasks[j].st = "failed"

StartTask_unbounded(i) ==
    /\ i \in TaskIds
    /\ tasks[i].st = "pending"
    /\ \A j \in TaskIds : j < i => tasks[j].st # "pending"
    /\ tasks' = [tasks EXCEPT ![i].st = "running", ![i].after_failure = SomeFailed]
    /\ queries' = Append(queries, [origin |-> tasks[i].origin,
                                   destination |-> tasks[i].destination,
                                   departure_date |-> tasks[i].departure_date,
                                   token |-> tasks[i].token])
    /\ UNCHANGED qvars
    /\ UNCHANGED <<now, credentials, amadeus_token_cache, issued, valid_until, tframe,
                   form, search,
                   all_found_flights, session, response, net, faults>>

StartTask(i) ==
    /\ i \in TaskIds
    /\ tasks[i].st = "pending"
    /\ \A j \in TaskIds : j < i => tasks[j].st # "pending"
    /\ Cardinality(Executing) < MAX_WORKERS
    /\ tasks' = [tasks EXCEPT ![i].st = "running", ![i].after_failure = SomeFailed]
    /\ queries' = Append(queries, [origin |-> tasks[i].origin,
                                   destination |-> tasks[i].destination,
                                   departure_date |-> tasks[i].departure_date,
                                   token |-> tasks[i].token])
    /\ UNCHANGED qvars
    /\ UNCHANGED <<now, credentials, amadeus_token_cache, issued, valid_until, tframe,
                   form, search,
                   all_found_flights, session, response, net, faults>>

(***************************************************************************)
(* What the upstream holds, and find_flights' parse of an offer (lines     *)
(* 274-289): the time of day of the departure, the flight, the seats with  *)
(* 99 for a missing numberOfBookableSeats.                                 *)
(***************************************************************************)
RawOffer(at, number, seats) ==
    [at |-> at, number |-> number, has_seats |-> seats >= 0, seats |-> seats]

UpstreamOffers(day) ==
    CASE day = 1 -> <<RawOffer(<<1, 18>>, "LH 400", 5), RawOffer(<<1, 7>>, "LH 402", -1),
                      RawOffer(<<1, 7>>, "LH 404", 10)>>
      [] day = 2 -> <<RawOffer(<<2, 9>>, "LH 400", 1)>>
      [] OTHER -> <<>>

(* the upstream answers 400 for a day it has no offers for, except that    *)
(* for day 3 it answers 200 with an empty list                             *)
UpstreamStatus(day) == IF day > 3 THEN "400" ELSE "200"

DEFAULT_SEATS == 99

ParseOffer(raw, departure_date) ==
    [date |-> departure_date, departure_time |-> raw.at[2], flight |-> raw.number,
     seats |-> IF raw.has_seats THEN raw.seats ELSE DEFAULT_SEATS]

ParseOffers(raws, departure_date) ==
    [k \in 1..Len(raws) |-> ParseOffer(raws[k], departure_date)]

(* wait_time = 1 * (2 ** attempt), line 259 *)
Pow2(k) == IF k = 0 THEN 1 ELSE IF k = 1 THEN 2 ELSE 4
WaitTime_constant(attempt) == 1

WaitTime(attempt) == 1 * Pow2(attempt)

(***************************************************************************)
(* find_flights, lines 250-297: one request and what its answer leads to.  *)
(* 429 sleeps and tries again, or gives up at the third attempt; 400 is an *)
(* empty result; 200 is parsed; an error status or a transport failure     *)
(* raises AmadeusApiError; an offer that lacks a key raises KeyError.      *)
(* requests.get is called without a timeout (line 252): when the upstream  *)
(* never answers, the call blocks and the worker stays in it.              *)
(* While the handler is in its as_completed loop it takes the result of a  *)
(* finished query in (line 381).                                           *)
(***************************************************************************)
Faulty == {"429", "500", "transport_error", "malformed", "no_answer"}
SearchResponses(day) == {UpstreamStatus(day)} \cup Faulty

(* line 255 *)
IsRateLimited_or_server_error(status) == status \in {"429", "500"}

IsRateLimited(status) == status = "429"

(* line 265 *)
IsNoOffers_never(status) == FALSE

IsNoOffers(status) == status = "400"

Attempt(i) ==
    /\ i \in TaskIds
    /\ tasks[i].st = "running"
    /\ \E r \in SearchResponses(tasks[i].departure_date) :
        /\ r \in Faulty => tasks[i].attempt > 0 \/ faults < MaxFaultyQueries
        /\ faults' = IF r \in Faulty /\ tasks[i].attempt = 0 THEN faults + 1 ELSE faults
        /\ net' = [net EXCEPT !.search_requests = @ + 1]
        /\ LET sent == [tasks EXCEPT ![i].requests = @ + 1,
                                     ![i].responses = Append(@, r)]
           IN  CASE IsRateLimited(r) ->
                      /\ tasks' = IF tasks[i].attempt = RETRY_ATTEMPTS - 1
                                  THEN [sent EXCEPT ![i].st = "failed",
                                                    ![i].error = "rate_limit"]
                                  ELSE [sent EXCEPT
                                           ![i].st = "sleeping",
                                           ![i].waits = Append(@, WaitTime(tasks[i].attempt))]
                      /\ UNCHANGED all_found_flights
                 [] IsNoOffers(r) ->
                      /\ tasks' = [sent EXCEPT ![i].st = "done"]
                      /\ UNCHANGED all_found_flights
                 [] r = "200" ->
                      LET found_flights ==
                              ParseOffers(UpstreamOffers(tasks[i].departure_date),
                                          tasks[i].departure_date)
                      IN  /\ tasks' = [sent EXCEPT ![i].st = "done",
                                                   ![i].result = found_flights]
                          /\ all_found_flights' =
                                IF \E t \in Threads : pc[t] = "collect"
                                THEN all_found_flights \o found_flights
                                ELSE all_found_flights
                 [] r = "malformed" ->
                      /\ tasks' = [sent EXCEPT ![i].st = "failed",
                                               ![i].error = "unexpected"]
                      /\ UNCHANGED all_found_flights
                 [] r = "no_answer" ->
                      /\ tasks' = [sent EXCEPT ![i].st = "blocked"]
                      /\ UNCHANGED all_found_flights
                 [] OTHER ->
                      /\ tasks' = [sent EXCEPT ![i].st = "failed", ![i].error = "upstream"]
                      /\ UNCHANGED all_found_flights
    /\ UNCHANGED qvars
    /\ UNCHANGED <<now, credentials, amadeus_token_cache, issued, valid_until, tframe,
                   form, search,
                   session, response, queries>>

(* time.sleep(wait_time) is over: the next attempt, lines 261-262 *)
Wake(i) ==
    /\ i \in TaskIds
    /\ tasks[i].st = "sleeping"
    /\ tasks' = [tasks EXCEPT ![i].st = "running", ![i].attempt = @ + 1]
    /\ UNCHANGED qvars
    /\ UNCHANGED <<now, credentials, amadeus_token_cache, issued, valid_until, tframe,
                   form, search,
                   all_found_flights, session, response, net, queries, faults>>

(***************************************************************************)
(* Lines 379-385: future.result() of a failed query raises; the handler    *)
(* shuts the executor down, which cancels the work items still queued, and *)
(* re-raises.  Leaving the `with` block then waits for the running ones.   *)
(***************************************************************************)
CancelPending(ts) ==
    [i \in DOMAIN ts |-> IF ts[i].st = "pending"
                         THEN [ts[i] EXCEPT !.st = "cancelled"] ELSE ts[i]]

CollectFailure_swallowed(t) ==
    /\ pc[t] = "collect"
    /\ \E i \in TaskIds :
        /\ tasks[i].st = "failed"
        /\ tasks' = [tasks EXCEPT ![i].st = "done"]
    /\ UNCHANGED qvars
    /\ UNCHANGED <<now, credentials, amadeus_token_cache, issued, valid_until, tframe,
                   form, search,
                   all_found_flights, session, response, net, queries, faults>>

CollectFailure(t) ==
    /\ pc[t] = "collect"
    /\ \E i \in TaskIds :
        /\ tasks[i].st = "failed"
        /\ search' = [search EXCEPT !.error = tasks[i].error]
    /\ tasks' = CancelPending(tasks)
    /\ pc' = [pc EXCEPT ![t] = "aborting"]
    /\ UNCHANGED <<today, quota_file, quota_lock, frame, granted, calls>>
    /\ UNCHANGED <<now, credentials, amadeus_token_cache, issued, valid_until, tframe,
                   form,
                   all_found_flights, session, response, net, queries, faults>>

(***************************************************************************)
(* Lines 387-391: the running queries are over, the exception reaches the  *)
(* handler's except clauses and the error page is rendered: the result     *)
(* list is neither returned nor stored.                                    *)
(***************************************************************************)
ErrorMessage(error) ==
    IF error = "unexpected" THEN "unexpected_internal_error" ELSE error

RenderError(t) ==
    /\ pc[t] = "aborting"
    /\ Executing = {}
    /\ response' = ErrorPage(ErrorMessage(search.error))
    /\ pc' = [pc EXCEPT ![t] = "done"]
    /\ UNCHANGED <<today, quota_file, quota_lock, frame, granted, calls>>
    /\ UNCHANGED <<now, credentials, amadeus_token_cache, issued, valid_until, tframe,
                   form, search, tasks,
                   all_found_flights, session, net, queries, faults>>

(***************************************************************************)
(* Lines 393-404: the seat filter and the sort.  list.sort is stable.      *)
(***************************************************************************)
SeatInputs == {"", "5", "100", "few"}
IsDigit(text) == text \in {"5", "100"}
ToInt(text) == CASE text = "5" -> 5 [] text = "100" -> 100 [] OTHER -> 0

FilterSeats_at_most(flights, max_seats_str) ==
    IF max_seats_str # "" /\ IsDigit(max_seats_str)
    THEN LET Keep(flight) == flight.seats <= ToInt(max_seats_str)
         IN  SelectSeq(flights, Keep)
    ELSE flights

FilterSeats(flights, max_seats_str) ==
    IF max_seats_str # "" /\ IsDigit(max_seats_str)
    THEN LET Keep(flight) == flight.seats < ToInt(max_seats_str)
         IN  SelectSeq(flights, Keep)
    ELSE flights

KeyLess(a, b) ==
    \/ a.date < b.date
    \/ a.date = b.date /\ a.departure_time < b.departure_time

(* insert x behind the last element whose key is not greater *)
RECURSIVE InsertStable(_, _)
InsertStable(sorted, x) ==
    IF sorted = <<>> THEN <<x>>
    ELSE IF KeyLess(x, sorted[Len(sorted)])
         THEN Append(InsertStable(SubSeq(sorted, 1, Len(sorted) - 1), x),
                     sorted[Len(sorted)])
         ELSE Append(sorted, x)

SortFlights_as_collected(flights) == flights

RECURSIVE SortFlights(_)
SortFlights(flights) ==
    IF flights = <<>> THEN <<>>
    ELSE InsertStable(SortFlights(SubSeq(flights, 1, Len(flights) - 1)),
                      flights[Len(flights)])

(***************************************************************************)
(* Lines 393-419: every query is over and none failed: filter, sort, keep  *)
(* the list in the session, render the results page.  max_seats is read    *)
(* from the form at line 334 and first used here; the handler's record     *)
(* keeps it, and the list as it was collected.                             *)
(***************************************************************************)
Finish(t) ==
    /\ pc[t] = "collect"
    /\ \A i \in TaskIds : tasks[i].st = "done"
    /\ \E max_seats_str \in SeatInputs :
        LET flights == SortFlights(FilterSeats(all_found_flights, max_seats_str))
        IN  /\ all_found_flights' = flights
            /\ session' = flights
            /\ response' = ResultsPage(flights)
            /\ search' = [search EXCEPT !.max_seats = max_seats_str,
                                        !.collected = all_found_flights]
    /\ pc' = [pc EXCEPT ![t] = "done"]
    /\ UNCHANGED <<today, quota_file, quota_lock, frame, granted, calls>>
    /\ UNCHANGED <<now, credentials, amadeus_token_cache, issued, valid_until, tframe,
                   form, tasks,
                   net, queries, faults>>

(***************************************************************************)
(* The quota file when the process starts: whatever an earlier run, or an  *)
(* operator, left there.  The counts left by earlier reservations of the   *)
(* day are the day's grants so far.                                        *)
(***************************************************************************)
StoredCounts == {0, DAILY_API_CALL_LIMIT - 2, DAILY_API_CALL_LIMIT + 5}

InitialFiles ==
    {Absent, Unparsable, NonObject}
        \cup {QuotaRecord(d, c) : d \in {0, 1}, c \in StoredCounts}
        \cup {RecordWithoutCount(d) : d \in {0, 1}}

GrantedBy(file) ==
    [d \in Days |-> IF file.kind = "object" /\ file.date = d
                       /\ file.count <= DAILY_API_CALL_LIMIT
                    THEN file.count ELSE 0]

EmptyCache == [token |-> 0, expires_at |-> 0]
ValidCache == [token |-> 1, expires_at |-> DEFAULT_EXPIRES_IN]

InitCommon ==
    /\ today = 1
    /\ quota_lock = NoThread
    /\ pc = [t \in Threads |-> "idle"]
    /\ frame = [t \in Threads |-> NoFrame]
    /\ granted = GrantedBy(quota_file)
    /\ calls = 0
    /\ now = 0
    /\ issued = amadeus_token_cache.token
    /\ valid_until = IF amadeus_token_cache.token = 0 THEN <<>>
                     ELSE <<amadeus_token_cache.expires_at>>
    /\ tframe = [t \in Threads |-> NoTokenFrame]
    /\ form = NoForm
    /\ search = NoSearch
    /\ tasks = <<>>
    /\ all_found_flights = <<>>
    /\ session = <<>>
    /\ response = NoResponse
    /\ net = NoNet
    /\ queries = <<>>
    /\ faults = 0

InitQuota ==
    /\ quota_file \in InitialFiles
    /\ credentials = TRUE
    /\ amadeus_token_cache = EmptyCache
    /\ InitCommon

NextQuota ==
    \/ \E t \in Threads : CallConsume(t)
    \/ \E t \in Threads : CallRemaining(t)
    \/ \E t \in Threads : ConsumeEnter(t)
    \/ \E t \in Threads : ConsumeWrite(t)
    \/ \E t \in Threads : RemainingCall(t)
    \/ NextDay

SpecQuota == InitQuota /\ [][NextQuota]_vars

(***************************************************************************)
(* SpecToken: threads call get_amadeus_token while time passes; the cache  *)
(* starts empty or with a token an earlier call stored at time 0.          *)
(***************************************************************************)
InitToken ==
    /\ quota_file = Absent
    /\ amadeus_token_cache \in {EmptyCache, ValidCache}
    /\ credentials \in BOOLEAN
    /\ InitCommon

NextToken ==
    \/ \E t \in Threads : CallToken(t)
    \/ \E t \in Threads : TokenEnter(t)
    \/ \E t \in Threads : TokenResponse(t)
    \/ \E t \in Threads : TokenStore(t)
    \/ Tick

SpecToken == InitToken /\ [][NextToken]_vars

(***************************************************************************)
(* Spec: one search request, served by thread 1.                           *)
(***************************************************************************)
Handler == 1

SearchFiles == {Absent, QuotaRecord(1, DAILY_API_CALL_LIMIT - 3), NonObject}

Init ==
    /\ quota_file \in SearchFiles
    /\ amadeus_token_cache \in {EmptyCache, ValidCache}
    /\ credentials \in {TRUE, amadeus_token_cache # EmptyCache}
    /\ InitCommon

Next ==
    \/ Request(Handler)
    \/ Validate(Handler)
    \/ ConsumeEnter(Handler)
    \/ ConsumeWrite(Handler)
    \/ AfterQuota(Handler)
    \/ TokenEnter(Handler)
    \/ TokenResponse(Handler)
    \/ TokenStore(Handler)
    \/ Submit(Handler)
    \/ \E i \in 1..(MAX_DELTA_DAYS + 1) : StartTask(i)
    \/ \E i \in 1..(MAX_DELTA_DAYS + 1) : Attempt(i)
    \/ \E i \in 1..(MAX_DELTA_DAYS + 1) : Wake(i)
    \/ CollectFailure(Handler)
    \/ RenderError(Handler)
    \/ Finish(Handler)

Spec == Init /\ [][Next]_vars

(***************************************************************************)
(* Properties of the quota ledger, under SpecQuota.                        *)
(***************************************************************************)
Returned(t, fn) == pc[t] = "ret" /\ frame[t].fn = fn

(* the consumed count of a record on a day, as the specification words it *)
Consumed(file, day) ==
    IF file.kind = "object" /\ file.date = day THEN file.count ELSE 0

(***************************************************************************)
(* C1: on every calendar day the reservations granted sum to at most       *)
(* DAILY_API_CALL_LIMIT, and a call that returned True left a count of at  *)
(* most DAILY_API_CALL_LIMIT in the record.                                *)
(***************************************************************************)
C1_GrantedWithinLimit ==
    /\ \A d \in Days : granted[d] <= DAILY_API_CALL_LIMIT
    /\ \A t \in Threads :
         Returned(t, "consume") /\ frame[t].ok
            => frame[t].count <= DAILY_API_CALL_LIMIT

(***************************************************************************)
(* C3: a reservation of more than the day's remaining quota returns False  *)
(* and leaves the quota file as it was.                                    *)
(***************************************************************************)
C3_OverLimitRefusedUnchanged ==
    [][\A t \in Threads :
          ( /\ pc[t] = "ccq"
            /\ pc'[t] # "ccq"
            /\ quota_file.kind \in {"absent", "unparsable", "object"}
            /\ Consumed(quota_file, today) + frame[t].n > DAILY_API_CALL_LIMIT )
          => /\ pc'[t] = "ret"
             /\ frame'[t].ok = FALSE
             /\ quota_file' = quota_file]_vars

C3_Witness ==
    \E t \in Threads :
        /\ Returned(t, "consume")
        /\ ~frame[t].ok
        /\ frame[t].wrote = "none"
        /\ frame[t].loaded.kind = "object"
        /\ frame[t].n <= MAX_DELTA_DAYS + 1
        /\ quota_file = frame[t].loaded

(***************************************************************************)
(* C4: a failed write makes the call return False, and the record read on  *)
(* the same day still accounts for every reservation granted that day: no  *)
(* more than the limit less those grants is on offer.                      *)
(***************************************************************************)
OnOffer(file, day) ==
    LET r == Remaining(file, day)
    IN  IF r.status = "raise" THEN 0 ELSE r.value

C4_FailsClosed ==
    /\ \A t \in Threads :
         Returned(t, "consume") /\ frame[t].wrote \in {"open_failed", "write_failed"}
            => ~frame[t].ok
    /\ OnOffer(quota_file, today) <= DAILY_API_CALL_LIMIT - granted[today]

(***************************************************************************)
(* C5: a record of another day counts as 0 consumed in both functions, a   *)
(* granted reservation persists {date: the call's day, count: what the     *)
(* call took as consumed plus n}, which is n on a new day, and the count   *)
(* of a record of the call's day is taken as stored.                       *)
(***************************************************************************)
C5_LazyExactRollover ==
    [][\A t \in Threads :
          /\ (pc[t] = "ccq" /\ pc'[t] # "ccq" /\ quota_file.kind = "object")
             => LET base == IF pc'[t] = "ccq_write"
                            THEN frame'[t].count - frame[t].n
                            ELSE frame'[t].count
                IN  base = IF quota_file.date # today THEN 0 ELSE quota_file.count
          /\ (pc[t] = "ccq_write" /\ pc'[t] # "ccq_write" /\ frame'[t].ok)
             => quota_file' =
                    QuotaRecord(frame[t].today_str,
                                Consumed(frame[t].loaded, frame[t].today_str)
                                    + frame[t].n)
          /\ ( /\ pc[t] = "grq"
               /\ pc'[t] # "grq"
               /\ quota_file.kind \in {"object", "object_nocount"}
               /\ quota_file.date # today )
             => /\ pc'[t] = "ret"
                /\ frame'[t].remaining = DAILY_API_CALL_LIMIT]_vars

C5_Witness ==
    \E t \in Threads :
        /\ Returned(t, "consume")
        /\ frame[t].ok
        /\ frame[t].loaded.kind = "object"
        /\ frame[t].loaded.date # frame[t].today_str
        /\ frame[t].loaded.count > 0
        /\ quota_file = QuotaRecord(frame[t].today_str, frame[t].n)

(***************************************************************************)
(* C6: on an absent or corrupt record neither function raises,             *)
(* get_remaining_quota returns the full limit, and a reservation of at     *)
(* most the limit whose write succeeds returns True.                       *)
(***************************************************************************)
NotWellFormed == {"absent", "unparsable", "nonobject", "object_nocount"}

C6_CorruptRecordMeansFullQuota ==
    \A t \in Threads :
        frame[t].loaded.kind \in NotWellFormed
        => /\ pc[t] # "raised"
           /\ Returned(t, "remaining")
                => frame[t].remaining = DAILY_API_CALL_LIMIT
           /\ ( /\ Returned(t, "consume")
                /\ frame[t].n <= DAILY_API_CALL_LIMIT
                /\ frame[t].wrote = "written" )
                => frame[t].ok

(***************************************************************************)
(* C7: get_remaining_quota leaves the quota file as it is, returns         *)
(* max(0, limit - count) for a record of today, and a value in 0..limit    *)
(* whenever the stored count is not negative.                              *)
(***************************************************************************)
C7_RemainingReadOnly ==
    [][\A t \in Threads :
          (pc[t] = "grq" /\ pc'[t] # "grq")
          => /\ quota_file' = quota_file
             /\ (quota_file.kind = "object" /\ quota_file.date = today)
                => /\ pc'[t] = "ret"
                   /\ frame'[t].remaining =
                        Max(0, DAILY_API_CALL_LIMIT - quota_file.count)
             /\ (pc'[t] = "ret" /\ quota_file.count >= 0)
                => frame'[t].remaining \in 0..DAILY_API_CALL_LIMIT]_vars

C7_Witness ==
    \E t \in Threads :
        /\ Returned(t, "remaining")
        /\ frame[t].loaded.kind = "object"
        /\ frame[t].loaded.date = frame[t].today_str
        /\ frame[t].loaded.count > DAILY_API_CALL_LIMIT
        /\ frame[t].remaining = 0
        /\ quota_file = frame[t].loaded

(***************************************************************************)
(* Properties of the search request, under Spec.                           *)
(***************************************************************************)
Span == search.delta_days + 1

(***************************************************************************)
(* C2: once the reservation of a search has returned False, the request    *)
(* does nothing but answer with the daily-limit error: get_amadeus_token   *)
(* is not called, no exchange and no flight-search request is sent, no     *)
(* query is submitted.                                                     *)
(***************************************************************************)
C2_RefusedReservationStopsSearch ==
    \A t \in Threads :
        ( /\ frame[t].caller = "search"
          /\ pc[t] \notin {"ccq", "ccq_write", "unhandled"}
          /\ ~frame[t].ok )
        => /\ pc[t] \in {"after_quota", "done"}
           /\ pc[t] = "done" => response = Redirect("daily_limit_reached")
           /\ net = NoNet
           /\ tasks = <<>>
           /\ queries = <<>>

C2_Witness ==
    /\ pc[Handler] = "done"
    /\ response = Redirect("daily_limit_reached")
    /\ frame[Handler].wrote = "none"
    /\ frame[Handler].n = 5
    /\ DAILY_API_CALL_LIMIT - frame[Handler].loaded.count = 3
    /\ net = NoNet

(***************************************************************************)
(* C8: a form with both dates well formed whose end is before its start,   *)
(* or whose inclusive span is more than 7 days, is answered at once with   *)
(* the validation error, the quota file, the lock, the token cache and the *)
(* call counts untouched, and nothing follows; every other such form goes  *)
(* on to reserve its span.                                                 *)
(***************************************************************************)
RangeErrors == {"end_before_start", "range_exceeds_7_days"}

C8_InvalidRangeRejectedFirst ==
    /\ [](pc[Handler] = "done" /\ response.kind = "redirect"
             /\ response.error \in RangeErrors
          => /\ net = NoNet
             /\ frame[Handler] = NoFrame
             /\ tasks = <<>>
             /\ granted = GrantedBy(quota_file))
    /\ [][( /\ pc[Handler] = "search"
            /\ pc'[Handler] # "search"
            /\ form.origin # ""
            /\ form.destination # ""
            /\ form.start_date >= 0
            /\ form.end_date >= 0 )
          => IF form.end_date < form.start_date
                \/ form.end_date - form.start_date + 1 > 7
             THEN /\ pc'[Handler] = "done"
                  /\ response'.kind = "redirect"
                  /\ response'.error \in RangeErrors
                  /\ UNCHANGED <<quota_file, quota_lock, frame, granted,
                                 amadeus_token_cache, issued, net, tasks, queries>>
             ELSE /\ pc'[Handler] = "ccq"
                  /\ frame'[Handler].n = form.end_date - form.start_date + 1]_vars

C8_Witness ==
    /\ pc[Handler] = "done"
    /\ response = Redirect("range_exceeds_7_days")
    /\ form.end_date - form.start_date + 1 = 8
    /\ net = NoNet

(***************************************************************************)
(* C9, as stated: a search that reserved its quota and obtained a token    *)
(* has, when it ends, started one query for each day of the range.         *)
(***************************************************************************)
QueriedDays == {queries[k].departure_date : k \in 1..Len(queries)}
RangeDays == search.start_date..(search.start_date + search.delta_days)

C9_EveryDayQueried ==
    (pc[Handler] = "done" /\ tasks # <<>>)
        => /\ Len(queries) = Span
           /\ QueriedDays = RangeDays

(***************************************************************************)
(* C9, amended: the search submits exactly n queries, the i-th for the     *)
(* i-th day of the range, all with the handler's origin, destination and   *)
(* token; no day is queried twice; the queries started are all n unless a  *)
(* query failed and the rest was cancelled, and a search that returns      *)
(* results has started all n.                                              *)
(***************************************************************************)
C9_QueriesFollowRange ==
    /\ tasks # <<>>
       => /\ Len(tasks) = form.end_date - form.start_date + 1
          /\ \A i \in TaskIds :
                /\ tasks[i].departure_date = form.start_date + i - 1
                /\ tasks[i].origin = "FRA"
                /\ tasks[i].destination = "JFK"
                /\ tasks[i].token = search.token
                /\ tasks[i].token # 0
    /\ Len(queries) <= Len(tasks)
    /\ \A k \in 1..Len(queries) :
          /\ queries[k].departure_date \in RangeDays
          /\ queries[k].origin = "FRA"
          /\ queries[k].destination = "JFK"
          /\ queries[k].token = search.token
          /\ \A j \in 1..Len(queries) :
                queries[j].departure_date = queries[k].departure_date => j = k
    /\ (pc[Handler] = "done" /\ tasks # <<>> /\ Len(queries) < Len(tasks))
       => /\ response.kind = "error_page"
          /\ \E i \in TaskIds : tasks[i].st = "failed"
          /\ \E i \in TaskIds : tasks[i].st = "cancelled"
    /\ response.kind = "results" => QueriedDays = RangeDays

C9_Witness ==
    /\ pc[Handler] = "done"
    /\ response.kind = "results"
    /\ Len(queries) = MAX_DELTA_DAYS + 1
    /\ QueriedDays = 1..(MAX_DELTA_DAYS + 1)

(***************************************************************************)
(* C10: when a query of the search has failed, the request returns no      *)
(* flights and stores none in the session, whatever the other queries      *)
(* found; results are returned only when every query of the range ended    *)
(* without error.                                                          *)
(***************************************************************************)
C10_NoPartialSuccess ==
    /\ (\E i \in TaskIds : tasks[i].error # "none")
       => /\ response.kind \in {"none", "error_page"}
          /\ response.flights = <<>>
          /\ session = <<>>
    /\ response.kind = "results"
       => /\ Len(tasks) = form.end_date - form.start_date + 1
          /\ \A i \in TaskIds : tasks[i].st = "done" /\ tasks[i].error = "none"
    /\ response.kind # "results" => response.flights = <<>> /\ session = <<>>

C10_Witness ==
    /\ pc[Handler] = "done"
    /\ response.kind = "error_page"
    /\ all_found_flights # <<>>
    /\ session = <<>>
    /\ \E i \in TaskIds : tasks[i].st = "failed"
    /\ \E i \in TaskIds : tasks[i].st = "done"

(***************************************************************************)
(* Properties of the per-day queries, under Spec.                          *)
(***************************************************************************)
Last(seq) == seq[Len(seq)]

(* what find_flights returns for a day when the upstream answers 200 at once *)
OffersOf(day) ==
    [k \in 1..Len(UpstreamOffers(day)) |->
        [date |-> day, departure_time |-> UpstreamOffers(day)[k].at[2],
         flight |-> UpstreamOffers(day)[k].number,
         seats |-> IF UpstreamOffers(day)[k].has_seats
                   THEN UpstreamOffers(day)[k].seats ELSE 99]]

(***************************************************************************)
(* C11: a query makes at most 3 attempts.  One that received 429, 429 and  *)
(* then 200 has succeeded with exactly 3 requests, after waits of 1 s and  *)
(* then 2 s, and returns what a query of the same day returns whose first  *)
(* answer was 200; one that received 429 three times has failed with the   *)
(* rate-limit error after 3 requests and two waits, and sends no more.     *)
(***************************************************************************)
C11_RetryOnRateLimit ==
    \A i \in TaskIds :
        /\ tasks[i].requests <= 3
        /\ Len(tasks[i].responses) <= 3
        /\ tasks[i].responses = <<"200">>
           => tasks[i].st = "done" /\ tasks[i].result = OffersOf(tasks[i].departure_date)
        /\ tasks[i].responses = <<"429", "429", "200">>
           => /\ tasks[i].st = "done"
              /\ tasks[i].error = "none"
              /\ tasks[i].requests = 3
              /\ tasks[i].waits = <<1, 2>>
              /\ tasks[i].result = OffersOf(tasks[i].departure_date)
        /\ tasks[i].responses = <<"429", "429", "429">>
           => /\ tasks[i].st = "failed"
              /\ tasks[i].error = "rate_limit"
              /\ tasks[i].requests = 3
              /\ tasks[i].waits = <<1, 2>>

C11_Witness ==
    \E i \in TaskIds :
        /\ tasks[i].responses = <<"429", "429", "200">>
        /\ tasks[i].result # <<>>
        /\ pc[Handler] = "done"
        /\ response.kind = "results"

(***************************************************************************)
(* C12: only 429 is retried.  A query whose latest answer is an error      *)
(* status other than 429 and 400, or a transport failure, whether it is    *)
(* its first answer or follows 429s, has failed with the API error, has    *)
(* slept only after the 429s before it, and never sends or sleeps again.   *)
(***************************************************************************)
C12_OnlyRateLimitRetried ==
    /\ [](\A i \in TaskIds :
            (tasks[i].responses # <<>>
                /\ Last(tasks[i].responses) \in {"500", "transport_error"})
            => /\ tasks[i].st = "failed"
               /\ tasks[i].error = "upstream"
               /\ tasks[i].requests = Len(tasks[i].responses)
               /\ Len(tasks[i].waits) = Len(tasks[i].responses) - 1
               /\ \A k \in 1..(Len(tasks[i].responses) - 1) :
                     tasks[i].responses[k] = "429")
    /\ [][\A i \in TaskIds :
            tasks[i].st = "failed" => tasks'[i] = tasks[i]]_vars

C12_Witness ==
    \E i \in TaskIds :
        /\ tasks[i].responses = <<"429", "500">>
        /\ tasks[i].waits = <<1>>
        /\ pc[Handler] = "done"
        /\ response = ErrorPage("upstream")

(***************************************************************************)
(* C13: a 400 is not an error.  A query answered 400, at once or after     *)
(* 429s, is done with an empty list and no error; the step that receives   *)
(* the 400 cancels no other query and leaves the handler collecting; and   *)
(* a search all of whose queries are done ends with the results page,      *)
(* which holds the offers of the other days.                               *)
(***************************************************************************)
C13_NoOffersIsNotAnError ==
    /\ [](\A i \in TaskIds :
            (tasks[i].responses # <<>> /\ Last(tasks[i].responses) = "400")
            => /\ tasks[i].st = "done"
               /\ tasks[i].error = "none"
               /\ tasks[i].result = <<>>)
    /\ [][\A i \in TaskIds :
            ( /\ i \in DOMAIN tasks'
              /\ Len(tasks'[i].responses) = Len(tasks[i].responses) + 1
              /\ Last(tasks'[i].responses) = "400" )
            => /\ \A j \in TaskIds \ {i} : tasks'[j] = tasks[j]
               /\ pc' = pc
               /\ all_found_flights' = all_found_flights]_vars
    /\ []( ( /\ pc[Handler] = "done"
             /\ tasks # <<>>
             /\ \A i \in TaskIds : tasks[i].st = "done" )
           => /\ response.kind = "results"
              /\ search.max_seats = ""
                 => \A i \in TaskIds : \A k \in 1..Len(tasks[i].result) :
                       \E m \in 1..Len(response.flights) :
                          response.flights[m] = tasks[i].result[k] )

C13_Witness ==
    /\ pc[Handler] = "done"
    /\ response.kind = "results"
    /\ response.flights # <<>>
    /\ \E i \in TaskIds : tasks[i].responses = <<"400">>
    /\ \E i \in TaskIds : tasks[i].responses = <<"429", "400">>

(***************************************************************************)
(* Properties of the token cache, under SpecToken.                         *)
(***************************************************************************)
OthersNeverCalled(t) == \A u \in Threads \ {t} : tframe[u] = NoTokenFrame

(***************************************************************************)
(* C14: a call that finds a cached token with more than 60 seconds left    *)
(* returns that token in the same step, sends no exchange and leaves the   *)
(* cache as it is.  Hence when a thread calls twice with no other caller   *)
(* about, and the second call comes while the token of the first has more  *)
(* than 60 seconds left, the second call returns the same token and the    *)
(* two calls have sent one exchange (none when the first was a hit too).   *)
(***************************************************************************)
C14_CacheHitChangesNothing ==
    /\ [][\A t \in Threads :
            ( /\ pc[t] = "token"
              /\ pc'[t] # "token"
              /\ amadeus_token_cache.token # 0
              /\ amadeus_token_cache.expires_at - now > 60 )
            => /\ pc'[t] = IF tframe'[t].caller = "search" THEN "submit" ELSE "ret"
               /\ tframe'[t].outcome = "token"
               /\ tframe'[t].token = amadeus_token_cache.token
               /\ tframe'[t].exchanges = tframe[t].exchanges
               /\ net'.auth_requests = net.auth_requests
               /\ UNCHANGED <<amadeus_token_cache, issued, valid_until>>]_vars
    /\ [](\A t \in Threads :
            ( /\ pc[t] \in {"ret", "raised"}
              /\ tframe[t].caller = "direct"
              /\ tframe[t].previous # 0
              /\ OthersNeverCalled(t)
              /\ valid_until[tframe[t].previous] - tframe[t].at > 60 )
            => /\ pc[t] = "ret"
               /\ tframe[t].outcome = "token"
               /\ tframe[t].token = tframe[t].previous
               /\ tframe[t].hit
               /\ tframe[t].exchanges = 0
               /\ tframe[t].previous_exchanges + tframe[t].exchanges =
                      IF tframe[t].previous_hit THEN 0 ELSE 1)

C14_Witness ==
    \E t \in Threads :
        /\ pc[t] = "ret"
        /\ tframe[t].previous # 0
        /\ ~tframe[t].previous_hit
        /\ tframe[t].hit
        /\ tframe[t].token = tframe[t].previous
        /\ tframe[t].at = 1738
        /\ tframe[t].previous_exchanges = 1
        /\ tframe[t].exchanges = 0
        /\ net.auth_requests = 1
        /\ OthersNeverCalled(t)

(***************************************************************************)
(* C15: a token returned by get_amadeus_token has, at the time it is       *)
(* returned, at least 60 seconds left before it expires.                   *)
(***************************************************************************)
C15_ReturnedTokenHasSixtySeconds ==
    \A t \in Threads :
        (pc[t] = "ret" /\ tframe[t].outcome = "token")
        => valid_until[tframe[t].token] - tframe[t].at >= 60

(***************************************************************************)
(* Properties of the result list, under Spec.                              *)
(***************************************************************************)
RECURSIVE OffersOfDays(_, _)
OffersOfDays(first, n) ==
    IF n = 0 THEN <<>> ELSE OffersOfDays(first, n - 1) \o OffersOf(first + n - 1)

(* the seat ceiling of the form: a number, or none *)
HasCeiling == search.max_seats \in {"5", "100"}
Ceiling == IF search.max_seats = "5" THEN 5 ELSE 100

Passes(offer) == HasCeiling => offer.seats < Ceiling

Position(seq, x) == CHOOSE k \in 1..Len(seq) : seq[k] = x

(***************************************************************************)
(* C16: whatever the order in which the queries completed, the returned    *)
(* list holds each offer of the n days that passes the seat filter once    *)
(* and nothing else, ascending by (date, departure_time), offers of equal  *)
(* key in the order the upstream gave them.                                *)
(***************************************************************************)
C16_ResultIndependentOfCompletionOrder ==
    response.kind = "results" =>
        LET all == OffersOfDays(search.start_date, search.delta_days + 1)
            kept == {all[k] : k \in {j \in 1..Len(all) : Passes(all[j])}}
            out == response.flights
        IN  /\ {out[k] : k \in 1..Len(out)} = kept
            /\ Len(out) = Cardinality(kept)
            /\ \A j, k \in 1..Len(out) :
                  j < k =>
                     /\ out[j].date <= out[k].date
                     /\ out[j].date = out[k].date
                        => out[j].departure_time <= out[k].departure_time
                     /\ (out[j].date = out[k].date
                           /\ out[j].departure_time = out[k].departure_time)
                        => Position(all, out[j]) < Position(all, out[k])
            /\ session = out

C16_Witness ==
    /\ response.kind = "results"
    /\ Len(search.collected) = 4
    /\ search.collected[1].date = 2
    /\ Len(response.flights) = 4
    /\ response.flights[1].flight = "LH 402"
    /\ response.flights[2].flight = "LH 404"
    /\ response.flights[3].flight = "LH 400"
    /\ response.flights[4].date = 2

(***************************************************************************)
(* C17: with a seat ceiling m the result holds exactly the offers with     *)
(* fewer than m seats, an offer without a seat count counting as 99;       *)
(* without a ceiling it holds every offer.                                 *)
(***************************************************************************)
SeatsOf(raw) == IF raw.has_seats THEN raw.seats ELSE 99

UpstreamSeats(days) ==
    UNION {{[date |-> d, flight |-> UpstreamOffers(d)[k].number,
             seats |-> SeatsOf(UpstreamOffers(d)[k])] :
               k \in 1..Len(UpstreamOffers(d))} : d \in days}

ResultSeats ==
    {[date |-> response.flights[k].date, flight |-> response.flights[k].flight,
      seats |-> response.flights[k].seats] : k \in 1..Len(response.flights)}

C17_SeatCeilingIsStrict ==
    response.kind = "results" =>
        LET upstream ==
                UpstreamSeats(search.start_date..(search.start_date + search.delta_days))
        IN  /\ search.max_seats = "5"
               => ResultSeats = {o \in upstream : o.seats < 5}
            /\ search.max_seats = "100"
               => ResultSeats = {o \in upstream : o.seats < 100}
            /\ search.max_seats \in {"", "few"}
               => ResultSeats = upstream
            /\ Len(response.flights) = Cardinality(ResultSeats)

C17_Witness ==
    /\ response.kind = "results"
    /\ search.max_seats = "5"
    /\ Len(search.collected) = 4
    /\ \E k \in 1..4 : search.collected[k].seats = 5
    /\ \E k \in 1..4 : search.collected[k].seats = 99
    /\ Len(response.flights) = 1
    /\ response.flights[1].seats = 1

(***************************************************************************)
(* Properties of the whole search request, under Spec.                     *)
(***************************************************************************)
Returned_to_caller == pc[Handler] \in {"idle", "done", "unhandled"}

(***************************************************************************)
(* C18: a search always gets on: as long as the request has not returned,  *)
(* some step of it can be taken, even when an upstream call never answers. *)
(***************************************************************************)
C18_SearchNeverStalls == Returned_to_caller \/ ENABLED Next

(***************************************************************************)
(* C19: the flight-search requests a search has sent, those re-sent after  *)
(* a 429 included, never number more than the n calls it reserved (none    *)
(* without a reservation).                                                 *)
(***************************************************************************)
C19_RequestsWithinReservation ==
    net.search_requests <= IF frame[Handler].ok THEN frame[Handler].n ELSE 0

(***************************************************************************)
(* C20: when get_amadeus_token yields no token, for want of credentials    *)
(* or because the exchange failed in transport or with an error status,    *)
(* the search ends with the authentication error page, the call has left   *)
(* the token cache as it found it, and no query is submitted and no        *)
(* flight-search request sent.                                             *)
(***************************************************************************)
C20_NoTokenNoSearch ==
    /\ [](tframe[Handler].outcome \in {"None", "raised"}
          => /\ pc[Handler] = "done"
             /\ response.kind = "error_page"
             /\ response.error \in {"no_token", "authentication_failed"}
             /\ response.flights = <<>>
             /\ tasks = <<>>
             /\ queries = <<>>
             /\ net.search_requests = 0
             /\ session = <<>>)
    /\ [][( /\ pc[Handler] \in {"token", "token_wait"}
            /\ \/ tframe'[Handler].outcome \in {"None", "raised"}
               \/ pc'[Handler] = "token_wait" )
          => UNCHANGED <<amadeus_token_cache, issued>>]_vars

C20_Witness ==
    /\ pc[Handler] = "done"
    /\ tframe[Handler].outcome = "raised"
    /\ tframe[Handler].exchanges = 1
    /\ response = ErrorPage("authentication_failed")
    /\ frame[Handler].ok
    /\ frame[Handler].n = 7
    /\ amadeus_token_cache = EmptyCache
    /\ net.search_requests = 0

(***************************************************************************)
(* Properties of the worker pool, under Spec.                              *)
(***************************************************************************)
InFlightOrSleeping ==
    {i \in TaskIds : tasks[i].st \in {"running", "sleeping", "blocked"}}
Over == {i \in TaskIds : tasks[i].st \in {"done", "failed"}}

(***************************************************************************)
(* C21: at every moment at most 5 queries of the search are executing, in  *)
(* flight or asleep between attempts, for every n from 1 to 7; a query     *)
(* starts only while fewer than 5 are executing, so the sixth and seventh  *)
(* start only after as many of the earlier ones are over.                  *)
(***************************************************************************)
C21_AtMostFiveExecuting ==
    /\ [](/\ Cardinality(InFlightOrSleeping) <= 5
          /\ Len(tasks) <= 7)
    /\ [][\A i \in TaskIds :
            (tasks[i].st = "pending" /\ tasks'[i].st # "pending"
                /\ tasks'[i].st # "cancelled")
            => /\ Cardinality(InFlightOrSleeping) <= 4
               /\ i > 5 => Cardinality(Over) >= i - 5]_vars

C21_Witness ==
    /\ Len(tasks) = 7
    /\ Cardinality(InFlightOrSleeping) = 5
    /\ tasks[6].st = "running"
    /\ tasks[7].st = "pending"
    /\ \E i \in 1..5 : tasks[i].st = "sleeping"
    /\ Cardinality(Over) = 1

(***************************************************************************)
(* C22: once a query of the search has failed, no query that had not       *)
(* started by then is started and sends a flight-search request: a query   *)
(* that left the queue after a failure has sent nothing.                   *)
(***************************************************************************)
C22_NoRequestFromQueriesQueuedAtFailure ==
    \A i \in TaskIds : tasks[i].after_failure => tasks[i].requests = 0

(***************************************************************************)
(* Properties of the token cache under concurrent refreshes, under         *)
(* SpecToken.                                                              *)
(***************************************************************************)
SlotOfOneExchange ==
    amadeus_token_cache.token # 0
    => amadeus_token_cache.expires_at = valid_until[amadeus_token_cache.token]

NoRefreshUnderWay == \A t \in Threads : pc[t] # "token_store"

(***************************************************************************)
(* C23: the cache slot is updated under mutual exclusion.  A caller that   *)
(* reads the slot finds a token with the expiry of the exchange that       *)
(* issued it, and whenever no refresh is under way the slot holds the      *)
(* token and the expiry of one exchange, the last writer's.                *)
(***************************************************************************)
C23_TokenSlotUpdatedAtomically ==
    /\ [](NoRefreshUnderWay => SlotOfOneExchange)
    /\ [][\A t \in Threads :
            (pc[t] = "token" /\ pc'[t] # "token") => SlotOfOneExchange]_vars

(***************************************************************************)
(* Properties of the backoff, under Spec.                                  *)
(***************************************************************************)
BackoffSeconds(k) == CASE k = 1 -> 1 [] k = 2 -> 2 [] k = 3 -> 4

(***************************************************************************)
(* C24: the waits of a rate-limited query are 1 s, 2 s and 4 s: after its  *)
(* k-th 429, for k = 1, 2 and 3, the query waits 2^(k-1) seconds.          *)
(***************************************************************************)
C24_BackoffOneTwoFour ==
    \A i \in TaskIds : \A k \in 1..3 :
        (Len(tasks[i].responses) >= k /\ tasks[i].responses[k] = "429")
        => /\ Len(tasks[i].waits) >= k
           /\ tasks[i].waits[k] = BackoffSeconds(k)

(***************************************************************************)
(* Properties of the quota lock, under Spec.                               *)
(***************************************************************************)
InExchange(t) == pc[t] \in {"token_wait", "token_blocked"}
AwaitingQueries(t) == pc[t] \in {"collect", "aborting"} /\ InFlightOrSleeping # {}

(***************************************************************************)
(* C25: quota_lock is never held across network I/O.  A thread that is     *)
(* inside a token exchange, or whose queries are in flight or asleep in    *)
(* backoff, does not hold the lock; the lock is held only between the read *)
(* and the write of the quota record.                                      *)
(***************************************************************************)
C25_QuotaLockNotHeldAcrossNetwork ==
    \A t \in Threads :
        /\ (InExchange(t) \/ AwaitingQueries(t)) => quota_lock # t
        /\ quota_lock = t => pc[t] = "ccq_write"

C25_Witness ==
    /\ pc[Handler] = "collect"
    /\ frame[Handler].wrote = "written"
    /\ tframe[Handler].exchanges = 1
    /\ \E i \in TaskIds : tasks[i].st = "sleeping"
    /\ \E i \in TaskIds : tasks[i].st = "running" /\ tasks[i].requests = 0
    /\ quota_lock = NoThread

(***************************************************************************)
(* Properties of the reservation of a search, under Spec.                  *)
(***************************************************************************)
Reserved(t) ==
    frame[t].caller = "search" /\ frame[t].ok /\ pc[t] \notin {"ccq", "ccq_write"}

(***************************************************************************)
(* C26: the quota is consumed before the token is asked for and is never   *)
(* given back.  From a granted reservation of n on, whatever the search    *)
(* does (no token, a failed query and cancelled ones, no offers at all),   *)
(* the record holds the day's count as it was found plus n; the token is   *)
(* asked for only after the reservation was granted; and as long as the    *)
(* day does not change, the persisted count of the day never decreases.    *)
(***************************************************************************)
C26_QuotaConsumedNeverRefunded ==
    /\ [](\A t \in Threads :
            Reserved(t)
            => quota_file =
                  QuotaRecord(frame[t].today_str,
                              Consumed(frame[t].loaded, frame[t].today_str)
                                  + frame[t].n))
    /\ [](net.token_calls > 0 => Reserved(Handler))
    /\ [][today' = today
            => Consumed(quota_file', today) >= Consumed(quota_file, today)]_vars

(***************************************************************************)
(* Properties of the two quota functions together, under SpecQuota.        *)
(***************************************************************************)
HasCount(file) == file.kind = "object" /\ file.count >= 0

(* what get_remaining_quota returns on a record and a day *)
RemainingOn(file, day) == Remaining(file, day).value

(***************************************************************************)
(* C27: the two quota functions agree.  On a record with a count that is   *)
(* not negative, check_and_consume_quota(n) whose write does not fail      *)
(* returns True exactly when n is at most what get_remaining_quota returns *)
(* on that record and day; and the record it leaves when it returns True   *)
(* makes get_remaining_quota return exactly n less, on the same day.       *)
(***************************************************************************)
C27_ConsumeAgreesWithRemaining ==
    /\ [](\A t \in Threads :
            ( /\ Returned(t, "consume")
              /\ HasCount(frame[t].loaded)
              /\ frame[t].wrote \in {"none", "written"} )
            => (frame[t].ok
                  <=> frame[t].n <= RemainingOn(frame[t].loaded, frame[t].today_str)))
    /\ [][\A t \in Threads :
            ( /\ pc[t] = "ccq_write"
              /\ pc'[t] = "ret"
              /\ frame'[t].ok
              /\ HasCount(frame[t].loaded) )
            => RemainingOn(quota_file', frame[t].today_str) =
                  RemainingOn(frame[t].loaded, frame[t].today_str) - frame[t].n]_vars

C27_Witness ==
    \E t \in Threads :
        /\ Returned(t, "consume")
        /\ frame[t].ok
        /\ frame[t].loaded = QuotaRecord(1, DAILY_API_CALL_LIMIT - 2)
        /\ frame[t].today_str = 1
        /\ frame[t].n = 2
        /\ RemainingOn(frame[t].loaded, 1) = 2
        /\ RemainingOn(quota_file, 1) = 0

=============================================================================
